---- MODULE Spec2Model ----
(***************************************************************************)
(* Model of the shadow-drive client SDK: the add_immutable_storage         *)
(* pipeline of ShadowDriveClient, its submission helpers send_shdw_txn     *)
(* and get_object_data, and the GenesysGo two-step auth handshake with     *)
(* parse_account_id_from_url.                                              *)
(*                                                                         *)
(* One caller invokes one operation; every await point of the operation    *)
(* is a step, and the reply of the remote party at that point is an input. *)
(* log is the history of the call in progress: the requests it issued and  *)
(* the local steps it completed, in order. ledger is what the ledger holds *)
(* for the call in progress; parked is a second call on the same client,   *)
(* suspended at an await point (used by SpecConc only).                    *)
(* Text (URLs, account ids) is a sequence of one-character strings.        *)
(***************************************************************************)
EXTENDS Integers, Sequences, FiniteSets, TLC

VARIABLES client, op, pc, args, local, log, result, ledger, parked

vars == <<client, op, pc, args, local, log, result, ledger, parked>>

None == [tag |-> "None"]

----------------------------------------------------------------------------
(* Bounds *)

\* largest mantissa of a size argument (the number in front of the unit)
MaxN == 2

----------------------------------------------------------------------------
(* Text *)

GENESYSGO_FRAGMENT == <<"g", "e", "n", "e", "s", "y", "s", "g", "o">>
RPC_SIGNIN_URL == <<"h", "t", "t", "p", "s", ":", "/", "/", "p", "o", "r", "t", "a", "l", ".", "g", "e", "n", "e", "s", "y", "s", "g", "o", ".", "n", "e", "t", "/", "a", "p", "i", "/", "p", "r", "e", "m", "i", "u", "m", "/", "t", "o", "k", "e", "n">>
PORTAL_SIGNIN_URL == <<"h", "t", "t", "p", "s", ":", "/", "/", "p", "o", "r", "t", "a", "l", ".", "g", "e", "n", "e", "s", "y", "s", "g", "o", ".", "n", "e", "t", "/", "a", "p", "i", "/", "s", "i", "g", "n", "i", "n">>

SchemeHttps == <<"h", "t", "t", "p", "s", ":", "/", "/">>
HostExampleGenesysgo == <<"e", "x", "a", "m", "p", "l", "e", ".", "g", "e", "n", "e", "s", "y", "s", "g", "o", ".", "n", "e", "t">>
HostSscDao == <<"s", "s", "c", "-", "d", "a", "o", ".", "g", "e", "n", "e", "s", "y", "s", "g", "o", ".", "n", "e", "t">>
HostExampleCom == <<"e", "x", "a", "m", "p", "l", "e", ".", "c", "o", "m">>
PathNone == <<>>
PathSlash == <<"/">>
PathAbc123 == <<"/", "a", "b", "c", "1", "2", "3">>
PathAbc == <<"/", "a", "b", "c">>
PathFragment == <<"/", "g", "e", "n", "e", "s", "y", "s", "g", "o">>
PathTwoSegments == <<"/", "v", "1", "/", "a", "b", "c", "1", "2", "3">>
PathTrailingSlash == <<"/", "a", "b", "c", "1", "2", "3", "/">>
IdAbc123 == <<"a", "b", "c", "1", "2", "3">>
IdAbc == <<"a", "b", "c">>

Hosts == {HostExampleGenesysgo, HostSscDao, HostExampleCom}
Paths == {PathNone, PathSlash, PathAbc123, PathAbc, PathFragment, PathTwoSegments, PathTrailingSlash}

\* the URLs a caller hands to parse_account_id_from_url
Urls == {SchemeHttps \o h \o p : h \in Hosts, p \in Paths}

\* str::contains: frag occurs in s as a contiguous substring
Contains(s, frag) ==
    \E i \in 1..(Len(s) - Len(frag) + 1) : SubSeq(s, i, i + Len(frag) - 1) = frag

\* the host part of an absolute URL: the text between "://" and the next '/'
HostOf(url) ==
    LET rest == SubSeq(url, Len(SchemeHttps) + 1, Len(url))
        cut  == IF \E i \in 1..Len(rest) : rest[i] = "/"
                THEN (CHOOSE i \in 1..Len(rest) :
                         rest[i] = "/" /\ \A j \in 1..(i - 1) : rest[j] # "/") - 1
                ELSE Len(rest)
    IN  SubSeq(rest, 1, cut)

\* str::split("/").last(): the text after the last '/', the whole text when
\* there is none; split always yields at least one piece, so last() is Some
SplitLast(s) ==
    IF \E i \in 1..Len(s) : s[i] = "/"
    THEN LET k == CHOOSE i \in 1..Len(s) :
                     s[i] = "/" /\ \A j \in (i + 1)..Len(s) : s[j] # "/"
         IN  SubSeq(s, k + 1, Len(s))
    ELSE s

Ok(v) == [tag |-> "Ok", value |-> v]
Err(kind) == [tag |-> "Err", kind |-> kind]

\* the guard of parse_account_id_from_url
LooksLikeGenesysgo(genesysgo_url) == Contains(genesysgo_url, GENESYSGO_FRAGMENT)

parse_account_id_from_url(genesysgo_url) ==
    IF ~LooksLikeGenesysgo(genesysgo_url)
    THEN Err("NotAGenesysgoUrl")
    ELSE Ok(SplitLast(genesysgo_url))

----------------------------------------------------------------------------
(* The client *)

Wallets == {"wallet1", "wallet2"}
pubkey(w) == <<"pubkey", w>>

\* ShadowDriveClient::new: 120 s timeout, finalized commitment
RpcTimeoutSecs == 120
ClientNew(wallet) ==
    [wallet |-> wallet,
     rpc_client |-> [timeout |-> RpcTimeoutSecs, commitment |-> "finalized"],
     http_client |-> [timeout |-> "none"]]

\* ShadowDriveClient::new_with_rpc: the caller's RpcClient, whatever its settings
ClientNewWithRpc(wallet, rpc_client) ==
    [wallet |-> wallet,
     rpc_client |-> rpc_client,
     http_client |-> [timeout |-> "none"]]

\* the RpcClients a caller builds: its own timeout and commitment level
RpcClients == [timeout : {30}, commitment : {"confirmed", "finalized"}]

NoLocal ==
    [size_as_bytes |-> None, acct |-> None, instruction |-> None,
     txn_encoded |-> None, resp |-> None, rpc_reply |-> None,
     acct_reply |-> None, blockhash_reply |-> None,
     signin_resp |-> None, step_1_auth_token |-> None]

\* a call that has not started: what a future holds before its first poll
IdleCall ==
    [op |-> "none", pc |-> "idle", args |-> None, local |-> NoLocal,
     log |-> <<>>, result |-> None, ledger |-> None]

Init ==
    /\ client \in {ClientNew(w) : w \in Wallets}
                  \cup {ClientNewWithRpc(w, r) : w \in Wallets, r \in RpcClients}
    /\ op = "none"
    /\ pc = "idle"
    /\ args = None
    /\ local = NoLocal
    /\ log = <<>>
    /\ result = None
    /\ ledger = None
    /\ parked = IdleCall

----------------------------------------------------------------------------
(* Sizes: byte_unit::Byte holds a u128 byte count. A count is written in    *)
(* base 1000, least significant limb first, with no leading zero limb, so   *)
(* that counts beyond the checker's machine integers stay exact.            *)

Units == {"B", "KB", "MB", "GB", "TB", "EB", "ZB"}

\* the power of 1000 a decimal unit stands for
UnitPow(unit) ==
    CASE unit = "B"  -> 0
      [] unit = "KB" -> 1
      [] unit = "MB" -> 2
      [] unit = "GB" -> 3
      [] unit = "TB" -> 4
      [] unit = "EB" -> 6
      [] unit = "ZB" -> 7

\* the sizes a caller can express: n units, 1 <= n <= MaxN
Sizes == [n : 1..MaxN, unit : Units]

\* Byte::get_bytes of the Byte built from n units: n * 1000^UnitPow(unit)
get_bytes(size) ==
    [i \in 1..(UnitPow(size.unit) + 1) |-> IF i <= UnitPow(size.unit) THEN 0 ELSE size.n]

\* u64::MAX = 18,446,744,073,709,551,615
U64_MAX == <<615, 551, 709, 73, 744, 446, 18>>

\* a <= b on base-1000 counts
LimbLeq(a, b) ==
    \/ Len(a) < Len(b)
    \/ /\ Len(a) = Len(b)
       /\ \/ a = b
          \/ \E i \in 1..Len(a) :
                /\ a[i] < b[i]
                /\ \A j \in (i + 1)..Len(a) : a[j] = b[j]

\* u64::try_from(u128).map_err(|_| Error::InvalidStorage)
SizeAsBytes(size) ==
    IF LimbLeq(get_bytes(size), U64_MAX)
    THEN Ok(get_bytes(size))
    ELSE Err("InvalidStorage")

----------------------------------------------------------------------------
(* Ledger RPC *)

StorageKeys == {"storage1", "storage2"}
Owners == {"owner1", "owner2"}
Blockhashes == {"hash1", "hash2"}

\* derived_addresses::user_info
user_info(wallet_pubkey) == <<"user-info", wallet_pubkey>>

\* What rpc_client.get_account returns, with the fact behind it. The RPC
\* client reports a missing account as RpcError::ForUser, and it also wraps
\* a failed getAccountInfo request into RpcError::ForUser; other failures
\* (node-version query, response decoding) keep their own kind.
GetAccountReplies ==
    { [tag |-> "Ok",  kind |-> "Account",               fact |-> "found"],
      [tag |-> "Err", kind |-> "RpcError::ForUser",     fact |-> "absent"],
      [tag |-> "Err", kind |-> "RpcError::ForUser",     fact |-> "query_failed"],
      [tag |-> "Err", kind |-> "RpcError::RpcRequestError", fact |-> "query_failed"],
      [tag |-> "Err", kind |-> "Reqwest",               fact |-> "query_failed"] }

\* the replies the RPC node can give when the ledger is l: the truth, or a
\* failed query
GetAccountRepliesOn(l) ==
    {r \in GetAccountReplies :
        \/ r.fact = "query_failed"
        \/ r.fact = (IF l.user_info = "exists" THEN "found" ELSE "absent")}

\* the match on user_info_acct
UserInfoOutcomeIgnoresQueryFailure(reply) ==
    IF reply.tag = "Ok" THEN Ok("exists")
    ELSE IF reply.kind = "RpcError::ForUser" THEN Err("UserInfoNotCreated")
    ELSE Ok("exists")
UserInfoOutcomeAbsentIsOk(reply) ==
    IF reply.tag = "Ok" THEN Ok("exists")
    ELSE IF reply.kind = "RpcError::ForUser" THEN Ok("absent")
    ELSE [tag |-> "Err", kind |-> "ClientError", cause |-> reply.kind]
UserInfoOutcome(reply) ==
    IF reply.tag = "Ok" THEN Ok("exists")
    ELSE IF reply.kind = "RpcError::ForUser" THEN Err("UserInfoNotCreated")
    ELSE [tag |-> "Err", kind |-> "ClientError", cause |-> reply.kind]

\* the resolved storage account: StorageAcct::V1(StorageAccount) or
\* StorageAcct::V2(StorageAccountV2)
StorageAccts == [version : {"V1", "V2"}, immutable : BOOLEAN, owner_1 : Owners]

\* what get_storage_account returns
GetStorageAccountReplies ==
    {Ok(a) : a \in StorageAccts}
    \cup {Err("AccountNotFound"), Err("UnknownAccountVersion"),
          [tag |-> "Err", kind |-> "ClientError", cause |-> "Reqwest"]}

\* what the ledger holds for one call: whether the wallet's user-info
\* account exists, and what resolving the storage account key finds
Ledgers ==
    [user_info : {"exists", "absent"},
     storage : {Ok(a) : a \in StorageAccts}
               \cup {Err("AccountNotFound"), Err("UnknownAccountVersion")}]

GetStorageAccountRepliesOn(l) ==
    {r \in GetStorageAccountReplies : r = l.storage \/ (r.tag = "Err" /\ r.kind = "ClientError")}

\* what rpc_client.get_latest_blockhash returns
GetLatestBlockhashReplies ==
    {Ok(h) : h \in Blockhashes}
    \cup {[tag |-> "Err", kind |-> "ClientError", cause |-> "Reqwest"]}

\* get_associated_token_address
get_associated_token_address(wallet_address, mint) == <<"ata", wallet_address, mint>>

\* accounts + args + Instruction of add_immutable_storage_v1
InstructionV1(wallet, storage_account_key, storage_account, size_as_bytes) ==
    [program_id |-> "PROGRAM_ADDRESS",
     accounts |->
        [layout |-> "IncreaseImmutableStorageV1",
         storage_config |-> "STORAGE_CONFIG_PDA",
         storage_account |-> storage_account_key,
         emissions_wallet |-> get_associated_token_address("EMISSIONS", "TOKEN_MINT"),
         owner |-> storage_account.owner_1,
         owner_ata |-> get_associated_token_address(pubkey(wallet), "TOKEN_MINT"),
         uploader |-> "UPLOADER",
         token_mint |-> "TOKEN_MINT",
         system_program |-> "system_program::ID",
         token_program |-> "TokenProgramID"],
     data |-> [name |-> "IncreaseImmutableStorage", additional_storage |-> size_as_bytes]]

\* accounts + args + Instruction of add_immutable_storage_v2
InstructionV2(wallet, storage_account_key, storage_account, size_as_bytes) ==
    [program_id |-> "PROGRAM_ADDRESS",
     accounts |->
        [layout |-> "IncreaseImmutableStorageV2",
         storage_config |-> "STORAGE_CONFIG_PDA",
         storage_account |-> storage_account_key,
         emissions_wallet |-> get_associated_token_address("EMISSIONS", "TOKEN_MINT"),
         owner |-> storage_account.owner_1,
         owner_ata |-> get_associated_token_address(pubkey(wallet), "TOKEN_MINT"),
         uploader |-> "UPLOADER",
         token_mint |-> "TOKEN_MINT",
         system_program |-> "system_program::ID",
         token_program |-> "TokenProgramID"],
     data |-> [name |-> "IncreaseImmutableStorage2", additional_storage |-> size_as_bytes]]

\* the immutability test of one match arm: TRUE when the arm returns
\* StorageAccountIsNotImmutable
NotImmutableV1Only(storage_account) ==
    storage_account.version = "V1" /\ ~storage_account.immutable
NotImmutableV2Only(storage_account) ==
    storage_account.version = "V2" /\ ~storage_account.immutable
NotImmutable(storage_account) == ~storage_account.immutable

\* the dispatch over the resolved account's tag
BuildInstructionAlwaysV1(wallet, storage_account_key, storage_account, size_as_bytes) ==
    InstructionV1(wallet, storage_account_key, storage_account, size_as_bytes)
BuildInstruction(wallet, storage_account_key, storage_account, size_as_bytes) ==
    IF storage_account.version = "V1"
    THEN InstructionV1(wallet, storage_account_key, storage_account, size_as_bytes)
    ELSE InstructionV2(wallet, storage_account_key, storage_account, size_as_bytes)

\* Transaction::new_with_payer(&[instruction], Some(wallet_pubkey)) followed by
\* try_partial_sign(&[&self.wallet], blockhash)
SignedTransactionCachedBlockhash(wallet, instruction, blockhash) ==
    [instructions |-> <<instruction>>,
     fee_payer |-> pubkey(wallet),
     recent_blockhash |-> "hash1",
     signatures |-> {<<"signature", wallet, "hash1">>}]
SignedTransactionSharedBlockhash(wallet, instruction, blockhash) ==
    LET h == IF parked.local.blockhash_reply.tag = "Ok"
             THEN parked.local.blockhash_reply.value
             ELSE blockhash
    IN  [instructions |-> <<instruction>>,
         fee_payer |-> pubkey(wallet),
         recent_blockhash |-> h,
         signatures |-> {<<"signature", wallet, h>>}]
SignedTransaction(wallet, instruction, blockhash) ==
    [instructions |-> <<instruction>>,
     fee_payer |-> pubkey(wallet),
     recent_blockhash |-> blockhash,
     signatures |-> {<<"signature", wallet, blockhash>>}]

\* serialize_and_encode: bincode, then base64
serialize_and_encode(txn) == <<"base64", <<"bincode", txn>>>>

----------------------------------------------------------------------------
(* Coordinator HTTP *)

SHDW_DRIVE_ENDPOINT == "SHDW_DRIVE_ENDPOINT"

Statuses == {200, 204, 301, 400, 502}

\* StatusCode::is_success: 200..=299
is_success(status) == 200 <= status /\ status <= 299

BodyError == "{\"error\":\"x\"}"
BodyErrorSpaced == " { \"error\" : \"x\" }\n"
BodyTxid == "{\"txid\":\"t1\"}"
BodyNull == "null"
BodyHtml == "<html>Bad Gateway</html>"
BodyEmpty == ""

Bodies == {BodyError, BodyErrorSpaced, BodyTxid, BodyNull, BodyHtml, BodyEmpty}

\* serde_json::from_slice::<Value>: the JSON value a body denotes, or a
\* decode failure
ParseJson(body) ==
    CASE body = BodyError       -> Ok([t |-> "object", fields |-> {<<"error", "x">>}])
      [] body = BodyErrorSpaced -> Ok([t |-> "object", fields |-> {<<"error", "x">>}])
      [] body = BodyTxid        -> Ok([t |-> "object", fields |-> {<<"txid", "t1">>}])
      [] body = BodyNull        -> Ok([t |-> "null", fields |-> {}])
      [] OTHER                  -> Err("Reqwest(decode)")

\* response.json::<ShdwDriveResponse>(): an object with a txid
DecodeShdwDriveResponse(body) ==
    LET v == ParseJson(body)
    IN  IF v.tag = "Ok" /\ v.value.t = "object"
           /\ \E f \in v.value.fields : f[1] = "txid"
        THEN Ok([txid |-> (CHOOSE f \in v.value.fields : f[1] = "txid")[2]])
        ELSE Err("Reqwest(decode)")

\* response.json::<FileDataResponse>(): no body of this model has its shape
\* but the one carrying the single field the model names
DecodeFileDataResponse(body) == DecodeShdwDriveResponse(body)

CoordinatorResponses == [status : Statuses, body : Bodies]

\* the tail of send_shdw_txn and of get_object_data, from the status test on
ServerError(response) ==
    LET message == ParseJson(response.body)
    IN  IF message.tag = "Err" THEN message
        ELSE [tag |-> "Err", kind |-> "ShadowDriveServerError",
              status |-> response.status, message |-> message.value]

SendShdwTxnResultDecodeAsServerError(response) ==
    IF ~is_success(response.status) \/ DecodeShdwDriveResponse(response.body).tag = "Err"
    THEN ServerError(response)
    ELSE DecodeShdwDriveResponse(response.body)
SendShdwTxnResult(response) ==
    IF ~is_success(response.status)
    THEN ServerError(response)
    ELSE DecodeShdwDriveResponse(response.body)

GetObjectDataResult(response) ==
    IF ~is_success(response.status)
    THEN ServerError(response)
    ELSE DecodeFileDataResponse(response.body)

\* the request send_shdw_txn posts
ShdwTxnRequestRpcCommitment(uri, txn_encoded) ==
    [tag |-> "http_post",
     url |-> <<SHDW_DRIVE_ENDPOINT, uri>>,
     body |-> [transaction |-> txn_encoded,
               commitment |-> client.rpc_client.commitment]]
ShdwTxnRequest(uri, txn_encoded) ==
    [tag |-> "http_post",
     url |-> <<SHDW_DRIVE_ENDPOINT, uri>>,
     body |-> [transaction |-> txn_encoded, commitment |-> "finalized"]]

----------------------------------------------------------------------------
(* add_immutable_storage *)

\* what the entry of add_immutable_storage issues once the size is
\* converted: nothing when the conversion failed, else the user-info lookup
EntryStepsLookupFirst(size_result, wallet) ==
    <<[tag |-> "rpc_get_account", address |-> user_info(pubkey(wallet))]>>
EntrySteps(size_result, wallet) ==
    IF size_result.tag = "Err"
    THEN <<>>
    ELSE <<[tag |-> "rpc_get_account", address |-> user_info(pubkey(wallet))]>>

\* add_immutable_storage_v1/_v2 up to the first await: the instruction is
\* built, then the latest blockhash is requested
BuildSteps(instruction) ==
    <<[tag |-> "build_instruction", instruction |-> instruction],
      [tag |-> "rpc_get_latest_blockhash"]>>

\* the rest of add_immutable_storage once the blockhash is there: partial
\* signing, serialize_and_encode, and the POST of send_shdw_txn
SubmitStepsEncodeBeforeSign(wallet, blockhash, txn_encoded) ==
    <<[tag |-> "serialize_and_encode"],
      [tag |-> "try_partial_sign", signer |-> wallet, blockhash |-> blockhash],
      ShdwTxnRequest("add-storage", txn_encoded)>>
SubmitSteps(wallet, blockhash, txn_encoded) ==
    <<[tag |-> "try_partial_sign", signer |-> wallet, blockhash |-> blockhash],
      [tag |-> "serialize_and_encode"],
      ShdwTxnRequest("add-storage", txn_encoded)>>

\* entry: size conversion, then the user-info lookup is issued
AddImmutableStorage_Call ==
    /\ pc = "idle"
    /\ \E key \in StorageKeys, size \in Sizes, l \in Ledgers :
        /\ args' = [storage_account_key |-> key, size |-> size]
        /\ ledger' = l
        /\ LET s == SizeAsBytes(size)
           IN  /\ log' = log \o EntrySteps(s, client.wallet)
               /\ IF s.tag = "Err"
                  THEN /\ result' = s
                       /\ pc' = "done"
                       /\ UNCHANGED local
                  ELSE /\ local' = [local EXCEPT !.size_as_bytes = s.value]
                       /\ pc' = "user_info"
                       /\ UNCHANGED result
    /\ op' = "add_immutable_storage"
    /\ UNCHANGED <<client, parked>>

\* the user-info reply arrives; on Ok the storage account is requested
AddImmutableStorage_UserInfo ==
    /\ op = "add_immutable_storage" /\ pc = "user_info"
    /\ \E reply \in GetAccountRepliesOn(ledger) :
        /\ local' = [local EXCEPT !.rpc_reply = reply]
        /\ LET o == UserInfoOutcome(reply)
           IN  IF o.tag = "Err"
               THEN /\ result' = o
                    /\ pc' = "done"
                    /\ UNCHANGED log
               ELSE /\ log' = Append(log, [tag |-> "rpc_get_storage_account",
                                           address |-> args.storage_account_key])
                    /\ pc' = "storage_acct"
                    /\ UNCHANGED result
    /\ UNCHANGED <<client, op, args, ledger, parked>>

\* the storage account is resolved; immutability check, instruction build,
\* Transaction::new_with_payer, and the blockhash is requested
AddImmutableStorage_StorageAcct ==
    /\ op = "add_immutable_storage" /\ pc = "storage_acct"
    /\ \E reply \in GetStorageAccountRepliesOn(ledger) :
        IF reply.tag = "Err"
        THEN /\ result' = reply
             /\ pc' = "done"
             /\ local' = [local EXCEPT !.acct_reply = reply]
             /\ UNCHANGED log
        ELSE IF NotImmutable(reply.value)
        THEN /\ result' = Err("StorageAccountIsNotImmutable")
             /\ pc' = "done"
             /\ local' = [local EXCEPT !.acct_reply = reply, !.acct = reply.value]
             /\ UNCHANGED log
        ELSE LET instruction == BuildInstruction(client.wallet,
                        args.storage_account_key, reply.value, local.size_as_bytes)
             IN  /\ local' = [local EXCEPT
                        !.acct_reply = reply,
                        !.acct = reply.value,
                        !.instruction = instruction]
                 /\ log' = log \o BuildSteps(instruction)
                 /\ pc' = "blockhash"
                 /\ UNCHANGED result
    /\ UNCHANGED <<client, op, args, ledger, parked>>

\* the blockhash arrives; partial signing (the signer may refuse), encoding,
\* and send_shdw_txn posts the request
AddImmutableStorage_Blockhash ==
    /\ op = "add_immutable_storage" /\ pc = "blockhash"
    /\ \E reply \in GetLatestBlockhashReplies, signs \in BOOLEAN :
        /\ IF reply.tag = "Err"
           THEN /\ result' = reply
                /\ pc' = "done"
                /\ local' = [local EXCEPT !.blockhash_reply = reply]
                /\ UNCHANGED log
           ELSE IF ~signs
           THEN /\ result' = Err("SignerError")
                /\ pc' = "done"
                /\ local' = [local EXCEPT !.blockhash_reply = reply]
                /\ UNCHANGED log
           ELSE LET txn == SignedTransaction(client.wallet, local.instruction, reply.value)
                    txn_encoded == serialize_and_encode(txn)
                IN  /\ local' = [local EXCEPT !.blockhash_reply = reply,
                                               !.txn_encoded = txn_encoded]
                    /\ log' = log \o SubmitSteps(client.wallet, reply.value, txn_encoded)
                    /\ pc' = "post"
                    /\ UNCHANGED result
    /\ UNCHANGED <<client, op, args, ledger, parked>>

\* the coordinator answers, or the request fails in transit
AddImmutableStorage_Post ==
    /\ op = "add_immutable_storage" /\ pc = "post"
    /\ \/ \E response \in CoordinatorResponses :
            /\ local' = [local EXCEPT !.resp = response]
            /\ result' = SendShdwTxnResult(response)
       \/ /\ result' = Err("Reqwest(send)")
          /\ UNCHANGED local
    /\ pc' = "done"
    /\ UNCHANGED <<client, op, args, log, ledger, parked>>

----------------------------------------------------------------------------
(* get_object_data *)

Locations == {"location1"}

GetObjectData_Call ==
    /\ pc = "idle"
    /\ \E location \in Locations :
        /\ args' = [location |-> location]
        /\ log' = Append(log, [tag |-> "http_post",
                               url |-> <<SHDW_DRIVE_ENDPOINT, "get-object-data">>,
                               body |-> [location |-> location]])
    /\ op' = "get_object_data"
    /\ pc' = "object_data"
    /\ UNCHANGED <<client, local, result, ledger, parked>>

GetObjectData_Response ==
    /\ op = "get_object_data" /\ pc = "object_data"
    /\ \/ \E response \in CoordinatorResponses :
            /\ local' = [local EXCEPT !.resp = response]
            /\ result' = GetObjectDataResult(response)
       \/ /\ result' = Err("Reqwest(send)")
          /\ UNCHANGED local
    /\ pc' = "done"
    /\ UNCHANGED <<client, op, args, log, ledger, parked>>

----------------------------------------------------------------------------
(* Auth handshake *)

SIGNIN_MSG == "Sign in to GenesysGo Shadow Platform."

AccountIds == {IdAbc123, IdAbc}

\* Signer::sign_message: deterministic in the key and the message
sign_message(signer, message) == <<"signature", signer, message>>

\* bs58::encode(..).into_string()
bs58_encode(bytes) == <<"bs58", bytes>>

\* Url::parse of an absolute https URL: origin and path
UrlParse(url) ==
    [origin |-> SchemeHttps \o HostOf(url),
     path |-> SubSeq(url, Len(SchemeHttps) + Len(HostOf(url)) + 1, Len(url))]

PortalStatuses == {200, 401, 500}

BodySignin1 == "{\"token\":\"jwt1\",\"user\":{\"id\":1,\"publicKey\":\"k\",\"createdAt\":\"c\",\"updatedAt\":\"u\"}}"
BodySignin2 == "{\"token\":\"jwt2\",\"user\":{\"id\":1,\"publicKey\":\"k\",\"createdAt\":\"c\",\"updatedAt\":\"u\"}}"
BodyToken1 == "{\"token\":\"rpc1\"}"
BodyToken2 == "{\"token\":\"rpc2\"}"
BodyUnauthorized == "{\"error\":\"unauthorized\"}"

PortalBodies == {BodySignin1, BodySignin2, BodyToken1, BodyToken2, BodyUnauthorized, BodyHtml}

PortalResponses == [status : PortalStatuses, body : PortalBodies]

\* the top-level fields of the JSON object a portal body denotes
PortalJson(body) ==
    CASE body = BodySignin1      -> Ok({<<"token", "jwt1">>, <<"user", "user1">>})
      [] body = BodySignin2      -> Ok({<<"token", "jwt2">>, <<"user", "user1">>})
      [] body = BodyToken1       -> Ok({<<"token", "rpc1">>})
      [] body = BodyToken2       -> Ok({<<"token", "rpc2">>})
      [] body = BodyUnauthorized -> Ok({<<"error", "unauthorized">>})
      [] OTHER                   -> Err("serde_json")

Field(fields, name) == (CHOOSE f \in fields : f[1] = name)[2]
HasField(fields, name) == \E f \in fields : f[1] = name

\* serde_json::from_str::<GenesysGoAuthResponse>: token and user are required
DecodeAuthResponse(body) ==
    LET v == PortalJson(body)
    IN  IF v.tag = "Ok" /\ HasField(v.value, "token") /\ HasField(v.value, "user")
        THEN Ok([token |-> Field(v.value, "token"), user |-> Field(v.value, "user")])
        ELSE Err("serde_json")

\* serde_json::from_str::<TokenResponse>: token is required, other fields
\* are ignored
DecodeTokenResponse(body) ==
    LET v == PortalJson(body)
    IN  IF v.tag = "Ok" /\ HasField(v.value, "token")
        THEN Ok([token |-> Field(v.value, "token")])
        ELSE Err("serde_json")

\* the request of genesysgo_portal_auth
Step1Request(signer) ==
    [tag |-> "http_post",
     url |-> UrlParse(PORTAL_SIGNIN_URL),
     authorization |-> None,
     body |-> [message |-> bs58_encode(sign_message(signer, SIGNIN_MSG)),
               signer |-> pubkey(signer)]]

\* the request of genesysgo_rpc_auth
Step2RequestNoAccount(account_id, step_1_auth_token) ==
    [tag |-> "http_post",
     url |-> UrlParse(RPC_SIGNIN_URL),
     authorization |-> <<"Bearer ", step_1_auth_token>>,
     body |-> None]
Step2Request(account_id, step_1_auth_token) ==
    [tag |-> "http_post",
     url |-> UrlParse(RPC_SIGNIN_URL \o <<"/">> \o account_id),
     authorization |-> <<"Bearer ", step_1_auth_token>>,
     body |-> None]

\* what genesysgo_portal_auth makes of the portal's response: the status is
\* not looked at
PortalAuthResult(response) == DecodeAuthResponse(response.body)

\* what genesysgo_rpc_auth makes of the portal's response
RpcAuthResult(response) == DecodeTokenResponse(response.body)

\* Ok(resp.token) of authenticate
AuthenticateValuePortalToken(step_1_auth_token, token_response) == step_1_auth_token
AuthenticateValue(step_1_auth_token, token_response) == token_response.token

Authenticate_Call ==
    /\ pc = "idle"
    /\ \E signer \in Wallets, account_id \in AccountIds :
        /\ args' = [signer |-> signer, account_id |-> account_id]
        /\ log' = Append(log, Step1Request(signer))
    /\ op' = "authenticate"
    /\ pc' = "signin"
    /\ UNCHANGED <<client, local, result, ledger, parked>>

\* the sign-in response arrives (or the request fails); on a decodable
\* response the token request is sent
Authenticate_Signin ==
    /\ op = "authenticate" /\ pc = "signin"
    /\ \/ \E response \in PortalResponses :
            LET r == PortalAuthResult(response)
            IN  IF r.tag = "Err"
                THEN /\ local' = [local EXCEPT !.signin_resp = response]
                     /\ result' = r
                     /\ pc' = "done"
                     /\ UNCHANGED log
                ELSE /\ local' = [local EXCEPT !.signin_resp = response,
                                               !.step_1_auth_token = r.value.token]
                     /\ log' = Append(log, Step2Request(args.account_id, r.value.token))
                     /\ pc' = "token"
                     /\ UNCHANGED result
       \/ /\ result' = Err("Reqwest(send)")
          /\ pc' = "done"
          /\ UNCHANGED <<local, log>>
    /\ UNCHANGED <<client, op, args, ledger, parked>>

\* the token response arrives (or the request fails)
Authenticate_Token ==
    /\ op = "authenticate" /\ pc = "token"
    /\ \/ \E response \in PortalResponses :
            LET r == RpcAuthResult(response)
            IN  /\ local' = [local EXCEPT !.resp = response]
                /\ result' = IF r.tag = "Err" THEN r
                             ELSE Ok(AuthenticateValue(local.step_1_auth_token, r.value))
       \/ /\ result' = Err("Reqwest(send)")
          /\ UNCHANGED local
    /\ pc' = "done"
    /\ UNCHANGED <<client, op, args, log, ledger, parked>>

----------------------------------------------------------------------------
(* parse_account_id_from_url *)

ParseAccountIdFromUrl ==
    /\ pc = "idle"
    /\ \E url \in Urls :
        /\ args' = [genesysgo_url |-> url]
        /\ result' = parse_account_id_from_url(url)
    /\ op' = "parse_account_id_from_url"
    /\ pc' = "done"
    /\ UNCHANGED <<client, local, log, ledger, parked>>

\* the caller takes the result; the call's locals are dropped and the
\* client is ready for the next call (a retry included)
Return ==
    /\ pc = "done"
    /\ op' = "none"
    /\ pc' = "idle"
    /\ args' = None
    /\ local' = NoLocal
    /\ log' = <<>>
    /\ result' = None
    /\ ledger' = None
    /\ UNCHANGED <<client, parked>>

Next ==
    \/ ParseAccountIdFromUrl
    \/ AddImmutableStorage_Call
    \/ AddImmutableStorage_UserInfo
    \/ AddImmutableStorage_StorageAcct
    \/ AddImmutableStorage_Blockhash
    \/ AddImmutableStorage_Post
    \/ GetObjectData_Call
    \/ GetObjectData_Response
    \/ Authenticate_Call
    \/ Authenticate_Signin
    \/ Authenticate_Token
    \/ Return

\* A request sent through a handle that carries a timeout ends, with the
\* reply or with the transport's timeout error; one sent through a handle
\* with no timeout ends only if the remote party answers.
RpcBounded == client.rpc_client.timeout \in Nat
HttpBounded == client.http_client.timeout # "none"

RpcReply ==
    \/ AddImmutableStorage_UserInfo
    \/ AddImmutableStorage_StorageAcct
    \/ AddImmutableStorage_Blockhash

SpecLive ==
    /\ Init
    /\ [][Next]_vars
    /\ WF_vars(RpcBounded /\ RpcReply)
    /\ WF_vars(HttpBounded /\ AddImmutableStorage_Post)

\* Two calls in flight on one client (&self is shared): the executor polls
\* one future at a time and may move to the other at any await point. The
\* future not being polled is parked with its own arguments and locals.
Current ==
    [op |-> op, pc |-> pc, args |-> args, local |-> local,
     log |-> log, result |-> result, ledger |-> ledger]

Switch ==
    /\ parked' = Current
    /\ op' = parked.op
    /\ pc' = parked.pc
    /\ args' = parked.args
    /\ local' = parked.local
    /\ log' = parked.log
    /\ result' = parked.result
    /\ ledger' = parked.ledger
    /\ UNCHANGED client

\* the remote parties' answers and the caller's arguments explored when two
\* calls are in flight
ConcInputs ==
    /\ args # None =>
          args.size \in {[n |-> 1, unit |-> "KB"], [n |-> 1, unit |-> "ZB"]}
    /\ ledger # None =>
          /\ ledger.storage.tag = "Ok"
          /\ ledger.storage.value \in
                {[version |-> "V1", immutable |-> TRUE,  owner_1 |-> "owner1"],
                 [version |-> "V2", immutable |-> TRUE,  owner_1 |-> "owner2"],
                 [version |-> "V2", immutable |-> FALSE, owner_1 |-> "owner2"]}
    /\ local.rpc_reply # None => local.rpc_reply.kind # "RpcError::RpcRequestError"
    /\ local.resp # None =>
          local.resp \in {[status |-> 200, body |-> BodyTxid],
                          [status |-> 502, body |-> BodyHtml]}

NextConc ==
    \/ AddImmutableStorage_Call /\ ConcInputs'
    \/ AddImmutableStorage_UserInfo /\ ConcInputs'
    \/ AddImmutableStorage_StorageAcct /\ ConcInputs'
    \/ AddImmutableStorage_Blockhash /\ ConcInputs'
    \/ AddImmutableStorage_Post /\ ConcInputs'
    \/ Switch

InitConc == Init /\ client \in {ClientNew(w) : w \in Wallets}

SpecConc == InitConc /\ [][NextConc]_vars

Spec == Init /\ [][Next]_vars

----------------------------------------------------------------------------
(* Properties *)

Received(r) == "status" \in DOMAIN r
InAdd == op = "add_immutable_storage"
InAuth == op = "authenticate"
InParse == op = "parse_account_id_from_url"
Resolved == InAdd /\ "version" \in DOMAIN local.acct

\* C1: add_immutable_storage on a resolved storage account with
\* immutable == false ends with StorageAccountIsNotImmutable, whether the
\* account resolved to V1 or to V2.
C1_NotImmutableFails ==
    (Resolved /\ ~local.acct.immutable)
        => (pc = "done" /\ result = Err("StorageAccountIsNotImmutable"))

C1_Witness ==
    /\ Resolved /\ local.acct.version = "V2" /\ ~local.acct.immutable
    /\ result = Err("StorageAccountIsNotImmutable")

\* C2: the user-info lookup has three outcomes: found (the call goes on to
\* resolve the storage account), confirmed absent (UserInfoNotCreated), query
\* failed (a transport error wrapping the cause, never UserInfoNotCreated);
\* UserInfoNotCreated is returned only when the account is confirmed absent.
C2_ThreeWayLookup ==
    (InAdd /\ "fact" \in DOMAIN local.rpc_reply) =>
        /\ local.rpc_reply.fact = "found" =>
              /\ Len(log) >= 2 /\ log[2].tag = "rpc_get_storage_account"
              /\ result # Err("UserInfoNotCreated")
        /\ local.rpc_reply.fact = "absent" =>
              (pc = "done" /\ result = Err("UserInfoNotCreated"))
        /\ local.rpc_reply.fact = "query_failed" =>
              /\ pc = "done" /\ result.tag = "Err" /\ result.kind = "ClientError"
              /\ result.cause = local.rpc_reply.kind
        /\ result = Err("UserInfoNotCreated") => local.rpc_reply.fact = "absent"

\* C3: whatever the body of a coordinator response with a non-2xx status,
\* send_shdw_txn and get_object_data return ShadowDriveServerError with the
\* response's status and the body's content as message, never a decode error
\* or another kind of error.
C3_NonSuccessIsServerError ==
    (op \in {"add_immutable_storage", "get_object_data"}
     /\ Received(local.resp) /\ ~is_success(local.resp.status)) =>
        /\ pc = "done"
        /\ result.tag = "Err"
        /\ result.kind = "ShadowDriveServerError"
        /\ result.status = local.resp.status
        /\ ParseJson(local.resp.body).tag = "Ok"
              => result.message = ParseJson(local.resp.body).value

\* C4: in send_shdw_txn a 2xx response with an undecodable body gives an
\* error that is not ShadowDriveServerError; ShadowDriveServerError is
\* returned only for a non-2xx response; a 2xx response with a decodable body
\* gives Ok with the decoded body.
C4_DecodeFailureIsDistinct ==
    InAdd =>
        /\ (result.tag = "Err" /\ result.kind = "ShadowDriveServerError")
              => (Received(local.resp) /\ ~is_success(local.resp.status))
        /\ (Received(local.resp) /\ is_success(local.resp.status)) =>
              IF local.resp.body = BodyTxid
              THEN result = Ok([txid |-> "t1"])
              ELSE result.tag = "Err" /\ result.kind # "ShadowDriveServerError"

C4_Witness ==
    /\ InAdd /\ Received(local.resp) /\ local.resp.status = 200
    /\ local.resp.body = BodyError
    /\ result = Err("Reqwest(decode)")

\* C5: every step-2 request of the handshake is a POST without body to the
\* token endpoint followed by "/" and the caller's account_id, and its
\* Authorization header is "Bearer " followed by the token of the step-1
\* response of the same authenticate call.
C5_Step2Request ==
    (InAuth /\ Len(log) >= 2) =>
        /\ log[2].tag = "http_post"
        /\ log[2].body = None
        /\ log[2].url.origin = UrlParse(RPC_SIGNIN_URL).origin
        /\ log[2].url.path = UrlParse(RPC_SIGNIN_URL).path \o <<"/">> \o args.account_id
        /\ Received(local.signin_resp)
        /\ HasField(PortalJson(local.signin_resp.body).value, "token")
        /\ log[2].authorization =
              <<"Bearer ", Field(PortalJson(local.signin_resp.body).value, "token")>>

C5_Witness ==
    /\ InAuth /\ Len(log) = 2 /\ args.account_id = IdAbc123
    /\ local.signin_resp.body = BodySignin2
    /\ log[2].authorization = <<"Bearer ", "jwt2">>

\* C6: authenticate runs step 1 then step 2, each at most once; step 2 is
\* sent only after the step-1 response was received and decoded; when step 1
\* fails or its response does not decode, authenticate returns an error and
\* step 2 is never sent; on success the value returned is the token of the
\* step-2 response, not the portal token.
C6_OrderedSteps ==
    InAuth =>
        /\ Len(log) \in {1, 2}
        /\ log[1] = Step1Request(args.signer)
        /\ Len(log) = 2 =>
              /\ log[2].url # log[1].url
              /\ Received(local.signin_resp)
              /\ DecodeAuthResponse(local.signin_resp.body).tag = "Ok"
        /\ (pc # "signin" /\ (~Received(local.signin_resp)
                              \/ DecodeAuthResponse(local.signin_resp.body).tag = "Err")) =>
              (pc = "done" /\ result.tag = "Err" /\ Len(log) = 1)
        /\ pc = "signin" => (Len(log) = 1 /\ result = None)
        /\ pc = "token" => (Len(log) = 2 /\ result = None)
        /\ result.tag = "Ok" =>
              /\ pc = "done" /\ Len(log) = 2 /\ Received(local.resp)
              /\ HasField(PortalJson(local.resp.body).value, "token")
              /\ result.value = Field(PortalJson(local.resp.body).value, "token")

C6_Witness ==
    /\ InAuth /\ pc = "done" /\ result = Ok("rpc1")
    /\ local.step_1_auth_token = "jwt1"

\* C7: a non-2xx response of the auth portal, to the sign-in or to the token
\* exchange, is reported as a server-reported error carrying the response's
\* status and body; it is never treated as a successful step.
C7_PortalNonSuccessIsServerError ==
    InAuth =>
        /\ (Received(local.signin_resp) /\ ~is_success(local.signin_resp.status)) =>
              /\ pc = "done" /\ Len(log) = 1
              /\ result.tag = "Err" /\ result.kind = "ServerError"
              /\ result.status = local.signin_resp.status
              /\ result.message = local.signin_resp.body
        /\ (Received(local.resp) /\ ~is_success(local.resp.status)) =>
              /\ result.tag = "Err" /\ result.kind = "ServerError"
              /\ result.status = local.resp.status
              /\ result.message = local.resp.body

\* C8: parse_account_id_from_url returns the last '/'-delimited path segment
\* of a URL whose hostname contains "genesysgo", and fails for every URL
\* whose hostname does not; "https://example.genesysgo.net/abc123" gives
\* "abc123" and "https://example.com/abc" fails.
C8_LastSegmentOfProviderUrl ==
    InParse =>
        LET url  == args.genesysgo_url
            path == UrlParse(url).path
        IN  /\ (Contains(HostOf(url), GENESYSGO_FRAGMENT)
                /\ path # <<>> /\ path[Len(path)] # "/")
                  => result = Ok(SplitLast(path))
            /\ ~Contains(HostOf(url), GENESYSGO_FRAGMENT) => result.tag = "Err"
            /\ url = SchemeHttps \o HostExampleGenesysgo \o PathAbc123
                  => result = Ok(IdAbc123)
            /\ url = SchemeHttps \o HostExampleCom \o PathAbc => result.tag = "Err"

\* C9: parse_account_id_from_url fails when the provider URL has no path
\* segment (no path at all, or a URL ending in '/'); it never returns the
\* hostname or the empty string as the account id.
C9_NoPathSegmentFails ==
    InParse =>
        LET url  == args.genesysgo_url
            path == UrlParse(url).path
        IN  /\ (Contains(HostOf(url), GENESYSGO_FRAGMENT)
                /\ (path = <<>> \/ path[Len(path)] = "/"))
                  => result.tag = "Err"
            /\ result # Ok(HostOf(url))
            /\ result # Ok(<<>>)

\* the exact byte count of n KB, n MB, n GB as a base-1000 count
ExactBytes(size) ==
    CASE size.unit = "KB" -> <<0, size.n>>
      [] size.unit = "MB" -> <<0, 0, size.n>>
      [] size.unit = "GB" -> <<0, 0, 0, size.n>>

\* C10: for a size with a KB, MB or GB suffix the instruction carries the
\* exact byte count as additional_storage; a size in any other unit is
\* rejected with InvalidStorage.
C10_OnlyKbMbGb ==
    InAdd =>
        /\ args.size.unit \in {"KB", "MB", "GB"} =>
              /\ result # Err("InvalidStorage")
              /\ "data" \in DOMAIN local.instruction =>
                    local.instruction.data.additional_storage = ExactBytes(args.size)
        /\ args.size.unit \notin {"KB", "MB", "GB"} =>
              (pc = "done" /\ result = Err("InvalidStorage"))

----------------------------------------------------------------------------
(* Properties of the add_immutable_storage pipeline *)

\* the steps of a successful add_immutable_storage, in the order of the code
PipelineTags ==
    <<"rpc_get_account", "rpc_get_storage_account", "build_instruction",
      "rpc_get_latest_blockhash", "try_partial_sign", "serialize_and_encode",
      "http_post">>
NetworkTags ==
    {"rpc_get_account", "rpc_get_storage_account", "rpc_get_latest_blockhash",
     "http_post"}
Tags(l) == [i \in 1..Len(l) |-> l[i].tag]
IsPrefix(s, t) == Len(s) <= Len(t) /\ \A i \in 1..Len(s) : s[i] = t[i]
Posts(l) == {i \in 1..Len(l) : l[i].tag = "http_post"}
Count(l, tag) == Cardinality({i \in 1..Len(l) : l[i].tag = tag})
\* the transaction inside an encoded transaction
Decoded(txn_encoded) == txn_encoded[2][2]

\* C11: every request body posted by send_shdw_txn for add_immutable_storage
\* has exactly the fields transaction and commitment; transaction is the
\* encoded transaction produced earlier in the same call, unchanged, and
\* commitment is "finalized" whatever commitment the RPC client was built with.
C11_RequestBody ==
    InAdd =>
        \A i \in Posts(log) :
            /\ DOMAIN log[i].body = {"transaction", "commitment"}
            /\ log[i].body.transaction = local.txn_encoded
            /\ local.txn_encoded =
                 serialize_and_encode(SignedTransaction(client.wallet,
                     local.instruction, local.blockhash_reply.value))
            /\ log[i].body.commitment = "finalized"

C11_Witness ==
    /\ InAdd /\ Posts(log) # {}
    /\ client.rpc_client.commitment = "confirmed"

\* C12: every successful run of add_immutable_storage performs, in this order
\* and each exactly once, the user-info lookup, the storage-account
\* resolution, the instruction build, the blockhash fetch, partial signing,
\* serialization and encoding, and the POST; at every moment the steps done so
\* far are an initial part of that order, so signing is the last step that
\* changes the transaction before its submission.
C12_PipelineOrder ==
    InAdd =>
        /\ IsPrefix(Tags(log), PipelineTags)
        /\ (pc = "done" /\ result.tag = "Ok") => Tags(log) = PipelineTags
        /\ pc = "user_info" => Len(log) = 1
        /\ pc = "storage_acct" => Len(log) = 2
        /\ pc = "blockhash" => Len(log) = 4
        /\ pc = "post" => Tags(log) = PipelineTags

C12_Witness ==
    InAdd /\ pc = "done" /\ result.tag = "Ok" /\ Tags(log) = PipelineTags

\* C13: every submitted transaction is signed over the blockhash fetched in
\* the same call, after the storage account was resolved and the instruction
\* built, with no network request between the fetch and the signing; the
\* client holds no blockhash, and a call holds none before its own fetch, so a
\* later call (a retry included) fetches again.
C13_FreshBlockhash ==
    /\ DOMAIN client = {"wallet", "rpc_client", "http_client"}
    /\ pc \in {"idle", "user_info", "storage_acct", "blockhash"} =>
          local.blockhash_reply = None
    /\ InAdd =>
          \A i \in Posts(log) :
              /\ i = 7
              /\ log[2].tag = "rpc_get_storage_account"
              /\ log[3].tag = "build_instruction"
              /\ log[4].tag = "rpc_get_latest_blockhash"
              /\ log[5].tag = "try_partial_sign"
              /\ local.blockhash_reply.tag = "Ok"
              /\ log[5].blockhash = local.blockhash_reply.value
              /\ Decoded(log[i].body.transaction).recent_blockhash
                    = local.blockhash_reply.value
              /\ Decoded(log[i].body.transaction).signatures
                    = {<<"signature", client.wallet, local.blockhash_reply.value>>}

C13_Witness ==
    /\ InAdd /\ Posts(log) # {}
    /\ local.blockhash_reply = Ok("hash2")

\* C14: add_immutable_storage never retries: each network request is issued
\* at most once per run, and as soon as a step fails the call returns an
\* error for that step, the failed request being the last one issued.
C14_NoRetry ==
    InAdd =>
        /\ \A tag \in NetworkTags : Count(log, tag) <= 1
        /\ (local.rpc_reply # None /\ local.rpc_reply.tag = "Err") =>
              /\ pc = "done" /\ result.tag = "Err"
              /\ Tags(log) = <<"rpc_get_account">>
        /\ (local.acct_reply # None /\ local.acct_reply.tag = "Err") =>
              /\ pc = "done" /\ result = local.acct_reply
              /\ Tags(log) = <<"rpc_get_account", "rpc_get_storage_account">>
        /\ (local.blockhash_reply # None /\ local.blockhash_reply.tag = "Err") =>
              /\ pc = "done" /\ result = local.blockhash_reply
              /\ Len(log) = 4 /\ log[4].tag = "rpc_get_latest_blockhash"
        /\ (result # None /\ result.tag = "Err") =>
              /\ pc = "done"
              /\ Len(log) > 0 => log[Len(log)].tag \in NetworkTags

C14_Witness ==
    /\ InAdd /\ pc = "done"
    /\ local.rpc_reply # None /\ local.rpc_reply.fact = "query_failed"
    /\ local.rpc_reply.kind = "Reqwest"
    /\ Tags(log) = <<"rpc_get_account">>

\* C15: the POST to add-storage is sent only if, earlier in the same call,
\* the user-info lookup returned an existing account, the storage account
\* resolved to a V1 or V2 account with immutable = true, and a transaction was
\* signed by the wallet and encoded; no run that ends in InvalidStorage,
\* UserInfoNotCreated, a resolution error or StorageAccountIsNotImmutable
\* sends anything to the coordinator.
C15_PostOnlyAfterChecks ==
    InAdd =>
        /\ \A i \in Posts(log) :
              /\ local.rpc_reply.tag = "Ok"
              /\ local.acct_reply.tag = "Ok"
              /\ local.acct_reply.value.version \in {"V1", "V2"}
              /\ local.acct_reply.value.immutable
              /\ \E j \in 1..(i - 1) :
                    /\ log[j].tag = "try_partial_sign"
                    /\ log[j].signer = client.wallet
              /\ \E j \in 1..(i - 1) : log[j].tag = "serialize_and_encode"
              /\ \E h \in Blockhashes :
                    Decoded(log[i].body.transaction).signatures
                        = {<<"signature", client.wallet, h>>}
              /\ log[i].body.transaction[1] = "base64"
        /\ ( \/ result \in {Err("InvalidStorage"), Err("UserInfoNotCreated"),
                            Err("StorageAccountIsNotImmutable")}
             \/ (local.acct_reply # None /\ local.acct_reply.tag = "Err") )
           => Posts(log) = {}

C15_Witness ==
    /\ InAdd /\ Posts(log) # {}
    /\ local.acct_reply.value.version = "V1"
    /\ local.acct_reply.value.immutable

\* C16: when several failure conditions hold at once, the error returned is
\* that of the earliest step in the order size conversion, user-info lookup,
\* storage-account resolution, immutability check, blockhash fetch and
\* signing, POST; in particular, with the user-info account absent and the
\* storage account not immutable the call returns UserInfoNotCreated and the
\* storage account is not fetched.
C16_EarliestFailureWins ==
    (InAdd /\ pc = "done") =>
        IF SizeAsBytes(args.size).tag = "Err"
        THEN result = Err("InvalidStorage") /\ log = <<>>
        ELSE IF ledger.user_info = "absent" \/ local.rpc_reply.tag = "Err"
        THEN /\ \/ result = Err("UserInfoNotCreated")
                \/ (result.kind = "ClientError" /\ result.cause = local.rpc_reply.kind)
             /\ local.rpc_reply.fact = "absent" => result = Err("UserInfoNotCreated")
             /\ Tags(log) = <<"rpc_get_account">>
        ELSE IF ledger.storage.tag = "Err" \/ local.acct_reply.tag = "Err"
        THEN /\ result = local.acct_reply
             /\ Tags(log) = <<"rpc_get_account", "rpc_get_storage_account">>
        ELSE IF ~ledger.storage.value.immutable
        THEN /\ result = Err("StorageAccountIsNotImmutable")
             /\ Tags(log) = <<"rpc_get_account", "rpc_get_storage_account">>
        ELSE IF local.blockhash_reply.tag = "Err"
        THEN result = local.blockhash_reply /\ Posts(log) = {}
        ELSE IF local.txn_encoded = None
        THEN result = Err("SignerError") /\ Posts(log) = {}
        ELSE Tags(log) = PipelineTags

C16_Witness ==
    /\ InAdd /\ pc = "done"
    /\ SizeAsBytes(args.size).tag = "Ok"
    /\ ledger.user_info = "absent"
    /\ ledger.storage.tag = "Ok" /\ ~ledger.storage.value.immutable
    /\ result = Err("UserInfoNotCreated")
    /\ Tags(log) = <<"rpc_get_account">>

\* C17: the instruction is chosen by the tag of the resolved account: V1 gives
\* the IncreaseImmutableStorageV1 account list with IncreaseImmutableStorage
\* arguments, V2 the IncreaseImmutableStorageV2 list with
\* IncreaseImmutableStorage2 arguments; in both, owner is owner_1 of the
\* resolved account, storage_account is the caller's key, the fee payer is the
\* wallet's public key, and the transaction holds that one instruction.
C17_DispatchOnVersion ==
    (InAdd /\ local.instruction # None) =>
        /\ local.acct.version = "V1" =>
              /\ local.instruction.accounts.layout = "IncreaseImmutableStorageV1"
              /\ local.instruction.data.name = "IncreaseImmutableStorage"
        /\ local.acct.version = "V2" =>
              /\ local.instruction.accounts.layout = "IncreaseImmutableStorageV2"
              /\ local.instruction.data.name = "IncreaseImmutableStorage2"
        /\ local.instruction.accounts.owner = local.acct.owner_1
        /\ local.instruction.accounts.storage_account = args.storage_account_key
        /\ local.instruction.data.additional_storage = local.size_as_bytes
        /\ \A i \in Posts(log) :
              /\ Decoded(log[i].body.transaction).instructions = <<local.instruction>>
              /\ Decoded(log[i].body.transaction).fee_payer = pubkey(client.wallet)

C17_Witness ==
    /\ InAdd /\ Posts(log) # {}
    /\ local.acct.version = "V2"
    /\ local.instruction.data.name = "IncreaseImmutableStorage2"

\* C18: InvalidStorage is returned before any network request (no lookup, no
\* fetch, no POST), and parse_account_id_from_url rejects a URL without any
\* network request.
C18_RejectedBeforeNetwork ==
    /\ (InAdd /\ result = Err("InvalidStorage")) => log = <<>>
    /\ InAdd => (log = <<>> <=> result = Err("InvalidStorage"))
    /\ InParse => log = <<>>

C18_Witness ==
    InAdd /\ pc = "done" /\ result = Err("InvalidStorage") /\ log = <<>>

\* the encoded transaction a call with arguments c.args submits, from the
\* client's wallet and the replies to the call's own requests
OwnTransaction(c) ==
    serialize_and_encode(
        SignedTransaction(client.wallet,
            BuildInstruction(client.wallet, c.args.storage_account_key,
                             c.local.acct_reply.value,
                             SizeAsBytes(c.args.size).value),
            c.local.blockhash_reply.value))

\* the result and the submitted transaction of call c are those its own
\* arguments and the replies to its own requests determine
OwnOutcome(c) ==
    (c.op = "add_immutable_storage") =>
        /\ \A i \in Posts(c.log) : c.log[i].body.transaction = OwnTransaction(c)
        /\ Tags(c.log) = PipelineTags =>
              c.log[5] = [tag |-> "try_partial_sign", signer |-> client.wallet,
                          blockhash |-> c.local.blockhash_reply.value]
        /\ c.pc = "done" =>
              IF SizeAsBytes(c.args.size).tag = "Err"
              THEN c.result = Err("InvalidStorage")
              ELSE IF c.local.rpc_reply.tag = "Err"
              THEN c.result = UserInfoOutcome(c.local.rpc_reply)
              ELSE IF c.local.acct_reply.tag = "Err"
              THEN c.result = c.local.acct_reply
              ELSE IF ~c.local.acct_reply.value.immutable
              THEN c.result = Err("StorageAccountIsNotImmutable")
              ELSE IF c.local.blockhash_reply.tag = "Err"
              THEN c.result = c.local.blockhash_reply
              ELSE IF c.local.txn_encoded = None
              THEN c.result = Err("SignerError")
              ELSE IF c.local.resp = None
              THEN c.result = Err("Reqwest(send)")
              ELSE c.result = SendShdwTxnResult(c.local.resp)

\* C19: concurrent calls on one client do not interfere: no step of a call
\* changes the client's wallet, RPC handle or HTTP handle, and under every
\* interleaving of two calls the result and the submitted transaction of each
\* depend only on its own arguments and the replies to its own requests.
C19_NoInterference ==
    /\ [](OwnOutcome(Current) /\ OwnOutcome(parked))
    /\ [][client' = client]_vars

\* both calls have submitted, with different keys and different blockhashes
C19_Witness ==
    /\ InAdd /\ parked.op = "add_immutable_storage"
    /\ Posts(log) # {} /\ Posts(parked.log) # {}
    /\ parked.pc = "post" /\ pc = "done"
    /\ args.storage_account_key # parked.args.storage_account_key
    /\ local.blockhash_reply # parked.local.blockhash_reply

\* C20: every call to add_immutable_storage on a client built with
\* ShadowDriveClient::new eventually returns, even when a remote party never
\* answers, every request being bounded by a finite timeout.
C20_EventuallyReturns ==
    (InAdd /\ client = ClientNew(client.wallet)) ~> (pc = "done")

====
